---------------------------- MODULE Spec2Model ----------------------------
(***************************************************************************)
(* Model of Tutorials/13_Geometry_Optimization/13c_Hessians-updating.ipynb *)
(*                                                                         *)
(* The notebook builds a guess Hessian, samples internal coordinates and   *)
(* forces at two points joined by a Newton-Raphson step, and applies the   *)
(* BFGS formula in its last code cell.  numpy's float64 values are         *)
(* modelled as exact rationals <<n, d>> (d > 0, lowest terms) extended     *)
(* with the IEEE specials numpy produces on a division by zero:            *)
(* <<1,0>> = +inf, <<-1,0>> = -inf, <<0,0>> = nan.  Rounding and the sign  *)
(* of a zero are not modelled.                                             *)
(***************************************************************************)
EXTENDS Integers, Sequences, FiniteSets, TLC

VARIABLES
    Nintco,   \* len(intcos)
    H,        \* the Hessian the update cell reads
    q_1,      \* internal coordinate values, first point
    q_2,      \* internal coordinate values, second point
    f_q1,     \* internal coordinate forces, first point
    f_q2,     \* internal coordinate forces, second point
    dq,       \* the dq array (Newton-Raphson step, then q_2 - q_1)
    dg,       \* the dg array
    gq,       \* np.dot(dq, dg)
    H_new,    \* the updated Hessian
    Hdq,      \* np.dot(H, dq)
    dqHdq,    \* np.dot(dq, Hdq)
    pc,       \* position in the notebook
    exc,      \* the exception that stopped the cell, if any
    mem,      \* the geometry arrays, by array object
    xyz,      \* the array object the name xyz is bound to
    x_1,      \* the array object the name x_1 is bound to
    x_2,      \* the array object the name x_2 is bound to
    molgeom,  \* the geometry held by the molecule object
    g_x1,     \* Cartesian gradient, first point
    g_x2      \* Cartesian gradient, second point

\* The names the update cell does not touch.
nbvars == <<mem, xyz, x_1, x_2, molgeom, g_x1, g_x2>>

vars == <<Nintco, H, q_1, q_2, f_q1, f_q2, dq, dg, gq, H_new, Hdq, dqHdq, pc,
          exc, mem, xyz, x_1, x_2, molgeom, g_x1, g_x2>>

---------------------------------------------------------------------------
(* Bounds of the model.                                                    *)

\* Largest number of internal coordinates the update cell is run with.
MaxN == 2

---------------------------------------------------------------------------
(* float64 arithmetic: rationals with inf and nan.                         *)

Abs(n) == IF n < 0 THEN -n ELSE n

Sign(n) == IF n > 0 THEN 1 ELSE IF n < 0 THEN -1 ELSE 0

RECURSIVE GCD(_, _)
GCD(a, b) == IF b = 0 THEN a ELSE GCD(b, a % b)

\* The float with value n/d (d may be 0: the specials).
Norm(n, d) ==
    IF d = 0 THEN <<Sign(n), 0>>
    ELSE LET s == IF d < 0 THEN -1 ELSE 1
             g == GCD(Abs(n), Abs(d))
         IN  <<(s * n) \div g, (s * d) \div g>>

R(n) == <<n, 1>>

NaN == <<0, 0>>

IsNaN(a) == a[1] = 0 /\ a[2] = 0

IsInf(a) == a[1] # 0 /\ a[2] = 0

IsFinite(a) == a[2] # 0

XNeg(a) == <<-a[1], a[2]>>

\* a + b
XAdd(a, b) ==
    IF IsNaN(a) \/ IsNaN(b) THEN NaN
    ELSE IF IsInf(a) /\ IsInf(b) THEN (IF a = b THEN a ELSE NaN)
    ELSE IF IsInf(a) THEN a
    ELSE IF IsInf(b) THEN b
    ELSE Norm(a[1] * b[2] + b[1] * a[2], a[2] * b[2])

\* a - b
XSub(a, b) == XAdd(a, XNeg(b))

\* a * b  (inf * 0 = nan)
XMul(a, b) == Norm(a[1] * b[1], a[2] * b[2])

\* 1 / b  (1/0 = inf, 1/inf = 0)
XRecip(b) ==
    IF IsNaN(b) THEN NaN
    ELSE IF b[1] = 0 THEN <<1, 0>>
    ELSE IF b[2] = 0 THEN <<0, 1>>
    ELSE IF b[1] > 0 THEN <<b[2], b[1]>>
    ELSE <<-b[2], -b[1]>>

\* a / b: numpy float64 division, which warns and returns inf or nan on a
\* zero divisor instead of raising.
XDiv(a, b) == XMul(a, XRecip(b))

\* a == b on floats: nan compares unequal to everything, itself included.
FloatEq(a, b) == ~IsNaN(a) /\ ~IsNaN(b) /\ a = b

\* a > 0 on floats.
XPos(a) == a[1] > 0

---------------------------------------------------------------------------
(* numpy arrays.  A 1-d array is a sequence; a 2-d array is a record of    *)
(* its shape and its entries.                                              *)

Unset == <<>>

UnsetMat == [rows |-> -1, cols |-> -1, a |-> <<>>]

Idx(r, c) == (1 .. r) \X (1 .. c)

\* np.zeros(n, float)
Zeros1(n) == [i \in 1 .. n |-> R(0)]

\* np.zeros((r, c), float)
Zeros2(r, c) == [rows |-> r, cols |-> c, a |-> [ij \in Idx(r, c) |-> R(0)]]

\* Whether shapes (la,) and (lb,) broadcast together.
CanBroadcast(la, lb) == la = lb \/ la = 1 \/ lb = 1

\* a - b on 1-d arrays, with numpy's broadcasting of a length-1 operand.
Sub1(a, b) ==
    LET n == IF Len(a) = Len(b) THEN Len(a)
             ELSE IF Len(a) = 1 THEN Len(b) ELSE Len(a)
    IN  [i \in 1 .. n |->
            XSub(IF Len(a) = n THEN a[i] ELSE a[1],
                 IF Len(b) = n THEN b[i] ELSE b[1])]

\* Whether dst[:] = v is accepted for a destination of length n.
CanAssign(n, v) == Len(v) = n \/ Len(v) = 1

\* The contents of a length-n destination after dst[:] = v.
Assign1(n, v) == [i \in 1 .. n |-> IF Len(v) = n THEN v[i] ELSE v[1]]

RECURSIVE DotUpTo(_, _, _)
DotUpTo(x, y, k) ==
    IF k = 0 THEN R(0) ELSE XAdd(DotUpTo(x, y, k - 1), XMul(x[k], y[k]))

\* np.dot of two 1-d arrays of equal length (0.0 for empty arrays).
Dot(x, y) == DotUpTo(x, y, Len(x))

RECURSIVE RowDotUpTo(_, _, _, _)
RowDotUpTo(M, i, v, k) ==
    IF k = 0 THEN R(0)
    ELSE XAdd(RowDotUpTo(M, i, v, k - 1), XMul(M.a[<<i, k>>], v[k]))

\* np.dot of a 2-d array with a 1-d array of length M.cols.
MatVec(M, v) == [i \in 1 .. M.rows |-> RowDotUpTo(M, i, v, M.cols)]

---------------------------------------------------------------------------
(* The BFGS update cell.                                                   *)

\* gq = np.dot(dq, dg)
GqOf(vq, vg) == Dot(vq, vg)

\* Mutant of Term1: the first rank-one term subtracted instead of added.
Term1Minus(Hm, vg, g, i, j) ==
    XSub(Hm.a[<<i, j>>], XDiv(XMul(vg[i], vg[j]), g))

\* One entry of the first loop: H[i,j] + dg[i] * dg[j] / gq
Term1(Hm, vg, g, i, j) ==
    XAdd(Hm.a[<<i, j>>], XDiv(XMul(vg[i], vg[j]), g))

\* One entry of the second loop: H_new[i,j] - Hdq[i] * Hdq[j] / dqHdq
Term2(Hn, vh, d, i, j) ==
    XSub(Hn.a[<<i, j>>], XDiv(XMul(vh[i], vh[j]), d))

\* The transpose of a 2-d array.
Transpose(M) ==
    [rows |-> M.cols, cols |-> M.rows,
     a |-> [ij \in Idx(M.cols, M.rows) |-> M.a[<<ij[2], ij[1]>>]]]

\* Mutant of HdqOf: the product taken with the partially updated H_new.
HdqFromPartial(Hm, Hn, vq) == MatVec(Hn, vq)

\* Mutant of HdqOf: np.dot(dq, H) in place of np.dot(H, dq).
HdqTransposed(Hm, Hn, vq) == MatVec(Transpose(Hm), vq)

\* Hdq = np.dot(H, dq): read from the input Hessian.
HdqOf(Hm, Hn, vq) == MatVec(Hm, vq)

\* dqHdq = np.dot(dq, Hdq)
DqHdqOf(vq, vh) == Dot(vq, vh)

\* dq[:] = q_2 - q_1
DqOf(qa, qb) == Sub1(qb, qa)

\* Mutant of DgOf: the change in forces, f_q2 - f_q1.
DgSwapped(fa, fb) == Sub1(fb, fa)

\* dg[:] = f_q1 - f_q2
DgOf(fa, fb) == Sub1(fa, fb)

\* Position of entry (i, j) in the loops' row-major order over range(n).
Ord(n, i, j) == (i - 1) * n + j

\* The entries (i, j) of range(n) x range(n) that H has no element for.
OutOfRange(Hm, n) == {ij \in Idx(n, n) : ij[1] > Hm.rows \/ ij[2] > Hm.cols}

\* The first index of the loops' order at which H[i,j] raises IndexError.
FirstBad(Hm, n) ==
    CHOOSE ij \in OutOfRange(Hm, n) :
        \A kl \in OutOfRange(Hm, n) : Ord(n, ij[1], ij[2]) <= Ord(n, kl[1], kl[2])

\* H_new = np.zeros(...); dg = np.zeros(...); dq[:] = ...; dg[:] = ...
Setup ==
    /\ pc = "setup"
    /\ H_new' = Zeros2(Nintco, Nintco)
    /\ IF CanBroadcast(Len(q_2), Len(q_1)) /\ CanAssign(Len(dq), DqOf(q_1, q_2))
       THEN /\ dq' = Assign1(Len(dq), DqOf(q_1, q_2))
            /\ IF CanBroadcast(Len(f_q1), Len(f_q2))
                  /\ CanAssign(Nintco, DgOf(f_q1, f_q2))
               THEN /\ dg' = Assign1(Nintco, DgOf(f_q1, f_q2))
                    /\ pc' = "gq"
                    /\ exc' = exc
               ELSE /\ dg' = Zeros1(Nintco)
                    /\ pc' = "raised"
                    /\ exc' = "ValueError"
       ELSE /\ dq' = dq
            /\ dg' = Zeros1(Nintco)
            /\ pc' = "raised"
            /\ exc' = "ValueError"
    /\ UNCHANGED <<Nintco, H, q_1, q_2, f_q1, f_q2, gq, Hdq, dqHdq, nbvars>>

\* gq = np.dot(dq, dg)
ComputeGq ==
    /\ pc = "gq"
    /\ IF Len(dq) = Len(dg)
       THEN gq' = GqOf(dq, dg) /\ pc' = "loop1" /\ exc' = exc
       ELSE gq' = gq /\ pc' = "raised" /\ exc' = "ValueError"
    /\ UNCHANGED <<Nintco, H, q_1, q_2, f_q1, f_q2, dq, dg, H_new, Hdq, dqHdq,
                   nbvars>>

\* for i, j: H_new[i,j] = H[i,j] + dg[i] * dg[j] / gq
Loop1 ==
    /\ pc = "loop1"
    /\ IF OutOfRange(H, Nintco) = {}
       THEN /\ H_new' = [H_new EXCEPT !.a =
                            [ij \in Idx(Nintco, Nintco) |->
                                Term1(H, dg, gq, ij[1], ij[2])]]
            /\ pc' = "products"
            /\ exc' = exc
       ELSE LET fb == FirstBad(H, Nintco)
            IN  /\ H_new' = [H_new EXCEPT !.a =
                                [ij \in Idx(Nintco, Nintco) |->
                                    IF Ord(Nintco, ij[1], ij[2])
                                          < Ord(Nintco, fb[1], fb[2])
                                    THEN Term1(H, dg, gq, ij[1], ij[2])
                                    ELSE H_new.a[ij]]]
                /\ pc' = "raised"
                /\ exc' = "IndexError"
    /\ UNCHANGED <<Nintco, H, q_1, q_2, f_q1, f_q2, dq, dg, gq, Hdq, dqHdq,
                   nbvars>>

\* Hdq = np.dot(H, dq); dqHdq = np.dot(dq, Hdq)
Products ==
    /\ pc = "products"
    /\ IF H.cols = Len(dq)
       THEN /\ Hdq' = HdqOf(H, H_new, dq)
            /\ IF Len(dq) = H.rows
               THEN dqHdq' = DqHdqOf(dq, Hdq') /\ pc' = "loop2" /\ exc' = exc
               ELSE dqHdq' = dqHdq /\ pc' = "raised" /\ exc' = "ValueError"
       ELSE /\ Hdq' = Hdq
            /\ dqHdq' = dqHdq
            /\ pc' = "raised"
            /\ exc' = "ValueError"
    /\ UNCHANGED <<Nintco, H, q_1, q_2, f_q1, f_q2, dq, dg, gq, H_new, nbvars>>

\* for i, j: H_new[i,j] -= Hdq[i] * Hdq[j] / dqHdq; print(H_new)
Loop2 ==
    /\ pc = "loop2"
    /\ H_new' = [H_new EXCEPT !.a =
                    [ij \in Idx(Nintco, Nintco) |->
                        Term2(H_new, Hdq, dqHdq, ij[1], ij[2])]]
    /\ pc' = "done"
    /\ UNCHANGED <<Nintco, H, q_1, q_2, f_q1, f_q2, dq, dg, gq, Hdq, dqHdq, exc,
                   nbvars>>

\* Mutant of Outcome: a completed run with gq = 0 reported as skipped.
OutcomeWithGqGuard ==
    IF pc = "done" /\ gq = R(0) THEN "UpdateSkipped"
    ELSE IF pc = "done" THEN "Updated"
    ELSE IF pc = "raised" THEN exc
    ELSE "Running"

\* What a run of the cell reports: it prints the updated Hessian or raises.
Outcome ==
    IF pc = "done" THEN "Updated"
    ELSE IF pc = "raised" THEN exc
    ELSE "Running"

---------------------------------------------------------------------------
(* Inputs of the update cell, for checking it as a function of H, dq, dg.  *)

\* Values of the previous point and spread of the current point around it.
QRef == R(1)

StepVals == {-1, 0, 1}

HDiagVals == {0, 1, 2}

HOffVals == {-1, 0, 1}

Const1(n, v) == [i \in 1 .. n |-> v]

\* The 1-d arrays of length n whose entries are ref + s, s a step value.
Around(n, ref) == [1 .. n -> {XAdd(ref, R(s)) : s \in StepVals}]

\* n x n matrix with diagonal p, r, r, ..., u above and l below the diagonal.
HMat(n, p, r, u, l) ==
    [rows |-> n, cols |-> n,
     a |-> [ij \in Idx(n, n) |->
              IF ij[1] = ij[2] THEN (IF ij[1] = 1 THEN R(p) ELSE R(r))
              ELSE IF ij[1] < ij[2] THEN R(u) ELSE R(l)]]

HessianInputs(n) ==
    {HMat(n, p, r, u, l) : p \in HDiagVals, r \in HDiagVals,
                           u \in HOffVals, l \in HOffVals}

\* The names of the earlier cells, unused when the update cell is checked
\* on its own.
NoNotebook ==
    /\ mem = <<>>
    /\ xyz = "None"
    /\ x_1 = "None"
    /\ x_2 = "None"
    /\ molgeom = Unset
    /\ g_x1 = Unset
    /\ g_x2 = Unset

Init ==
    /\ Nintco \in 0 .. MaxN
    /\ H \in HessianInputs(Nintco)
    /\ q_1 = Const1(Nintco, QRef)
    /\ q_2 \in Around(Nintco, QRef)
    /\ f_q2 = Const1(Nintco, QRef)
    /\ f_q1 \in Around(Nintco, QRef)
    /\ dq = Zeros1(Nintco)
    /\ dg = Unset
    /\ gq = Unset
    /\ H_new = UnsetMat
    /\ Hdq = Unset
    /\ dqHdq = Unset
    /\ pc = "setup"
    /\ exc = "None"
    /\ NoNotebook

Next == Setup \/ ComputeGq \/ Loop1 \/ Products \/ Loop2

Spec == Init /\ [][Next]_vars

---------------------------------------------------------------------------
(* The update cell run on names of any shape.  The cell takes H, q_1, q_2, *)
(* f_q1, f_q2 and the dq array from the notebook's namespace (as left by   *)
(* whichever cells were run before it) and sizes H_new and dg by Nintco;   *)
(* nothing in it compares the shapes.  The four sample arrays and dq share *)
(* one length, H has any shape.                                            *)

\* r x c matrix of ones.
Ones2(r, c) == [rows |-> r, cols |-> c, a |-> [ij \in Idx(r, c) |-> R(1)]]

InitDim ==
    /\ Nintco \in 0 .. MaxN
    /\ \E r \in 0 .. MaxN, c \in 0 .. MaxN : H = Ones2(r, c)
    /\ \E m \in 0 .. MaxN :
          /\ q_1 = Const1(m, R(1)) /\ q_2 = Const1(m, R(2))
          /\ f_q1 = Const1(m, R(2)) /\ f_q2 = Const1(m, R(1))
          /\ dq = Zeros1(m)
    /\ dg = Unset
    /\ gq = Unset
    /\ H_new = UnsetMat
    /\ Hdq = Unset
    /\ dqHdq = Unset
    /\ pc = "setup"
    /\ exc = "None"
    /\ NoNotebook

SpecDim == InitDim /\ [][Next]_vars

---------------------------------------------------------------------------
(* The notebook from its third code cell on.  The geometry, the gradient   *)
(* and the internal-coordinate helpers belong to psi4 and opt_helper; they *)
(* are modelled on three abstract coordinates: q = QScale * x, a harmonic  *)
(* surface around QEq with force constant KTrue.                           *)

\* len(intcos): two stretches and a bend.
NintcoWater == 3

QScale == 2

QEq == 1

KTrue == 3

\* intcosMisc.qValues(intcos, x): a new array of the coordinate values.
QValues(x) == [i \in 1 .. Len(x) |-> XMul(R(QScale), x[i])]

\* psi4.gradient('scf') at geometry x, reshaped to one dimension.
Gradient(x) ==
    [i \in 1 .. Len(x) |->
        XMul(R(QScale * KTrue), XSub(XMul(R(QScale), x[i]), R(QEq)))]

\* intcosMisc.qForces(intcos, x, g_x): the gradient in internal
\* coordinates with the sign changed.
QForces(x, gx) == [i \in 1 .. Len(gx) |-> XNeg(XDiv(gx[i], R(QScale)))]

\* linearAlgebra.symmMatInv(H, redundant=True) of the diagonal guess
\* Hessian: the generalized inverse.
SymmMatInv(Hm) ==
    [rows |-> Hm.rows, cols |-> Hm.cols,
     a |-> [ij \in Idx(Hm.rows, Hm.cols) |->
              IF ij[1] = ij[2] /\ Hm.a[ij] # R(0) THEN XRecip(Hm.a[ij])
              ELSE R(0)]]

\* The geometry displace.displace leaves in xyz: the step dq taken in
\* internal coordinates, up to the residual res of its back-transformation
\* (in quarters, on the first coordinate).
Displaced(x, step, res) ==
    [i \in 1 .. Len(x) |->
        XAdd(XAdd(x[i], XDiv(step[i], R(QScale))),
             IF i = 1 THEN Norm(res, 4) ELSE R(0))]

\* H[i,i] = intco.diagonalHessianGuess(...): a diagonal matrix.
Diag(d) ==
    [rows |-> Len(d), cols |-> Len(d),
     a |-> [ij \in Idx(Len(d), Len(d)) |->
              IF ij[1] = ij[2] THEN d[ij[1]] ELSE R(0)]]

GeomVals == {0, 1}

GuessVals == {1, 2}

ResidVals == {0, 1}

\* Mutant of CopyOf: x_1 = xyz, the same array object.
AliasOf(r) == r

\* xyz.copy(): a new array object.
CopyOf(r) == "array_x_1"

\* After the cell that builds the molecule and the guess Hessian.
InitNotebook ==
    /\ Nintco = NintcoWater
    /\ xyz = "array_xyz"
    /\ \E x \in [1 .. NintcoWater -> {R(v) : v \in GeomVals}] :
          /\ mem = [r \in {"array_xyz"} |-> x]
          /\ molgeom = x
    /\ \E d \in [1 .. NintcoWater -> {R(v) : v \in GuessVals}] : H = Diag(d)
    /\ x_1 = "None"
    /\ x_2 = "None"
    /\ q_1 = Unset /\ q_2 = Unset /\ f_q1 = Unset /\ f_q2 = Unset
    /\ g_x1 = Unset /\ g_x2 = Unset
    /\ dq = Unset /\ dg = Unset /\ gq = Unset
    /\ H_new = UnsetMat
    /\ Hdq = Unset /\ dqHdq = Unset
    /\ pc = "first_point"
    /\ exc = "None"

\* x_1 = xyz.copy(); q_1 = qValues(intcos, x_1); g_x1 = gradient;
\* f_q1 = qForces(intcos, xyz, g_x1)
FirstPoint ==
    /\ pc = "first_point"
    /\ x_1' = CopyOf(xyz)
    /\ mem' = [r \in DOMAIN mem \cup {x_1'} |-> IF r = x_1' THEN mem[xyz] ELSE mem[r]]
    /\ q_1' = QValues(mem'[x_1'])
    /\ g_x1' = Gradient(molgeom)
    /\ f_q1' = QForces(mem'[xyz], g_x1')
    /\ pc' = "nr_step"
    /\ UNCHANGED <<Nintco, H, q_2, f_q2, dq, dg, gq, H_new, Hdq, dqHdq, exc,
                   xyz, x_2, molgeom, g_x2>>

\* Hinv = symmMatInv(H); dq = np.dot(Hinv, f_q1); displace(intcos, xyz, dq, fq_aJ)
\* displace moves xyz in place; it may also write the step it achieved
\* back into dq.
NewtonRaphsonStep ==
    /\ pc = "nr_step"
    /\ \E res \in ResidVals, writesBack \in BOOLEAN :
          LET step == MatVec(SymmMatInv(H), f_q1)
              moved == Displaced(mem[xyz], step, res)
          IN  /\ mem' = [mem EXCEPT ![xyz] = moved]
              /\ dq' = IF writesBack
                       THEN Sub1(QValues(moved), QValues(mem[xyz]))
                       ELSE step
    /\ pc' = "second_point"
    /\ UNCHANGED <<Nintco, H, q_1, q_2, f_q1, f_q2, dg, gq, H_new, Hdq, dqHdq,
                   exc, xyz, x_1, x_2, molgeom, g_x1, g_x2>>

\* x_2 = xyz; q_2 = qValues(intcos, x_2); mol.set_geometry(x_2);
\* g_x2 = gradient; f_q2 = qForces(intcos, x_2, g_x2)
SecondPoint ==
    /\ pc = "second_point"
    /\ x_2' = xyz
    /\ q_2' = QValues(mem[x_2'])
    /\ molgeom' = mem[x_2']
    /\ g_x2' = Gradient(molgeom')
    /\ f_q2' = QForces(mem[x_2'], g_x2')
    /\ pc' = "setup"
    /\ UNCHANGED <<Nintco, H, q_1, f_q1, dq, dg, gq, H_new, Hdq, dqHdq, exc,
                   mem, xyz, x_1, g_x1>>

NextNotebook ==
    \/ FirstPoint \/ NewtonRaphsonStep \/ SecondPoint
    \/ Setup \/ ComputeGq \/ Loop1 \/ Products \/ Loop2

SpecNotebook == InitNotebook /\ [][NextNotebook]_vars

---------------------------------------------------------------------------
(* The numeric floor of the update contract (min_denominator = 1e-8).      *)

\* 1 / min_denominator
MinDenomInv == 100000000

\* |a| < min_denominator, for a finite a = n/d: |n| * MinDenomInv < d.
BelowFloor(a) == IsFinite(a) /\ Abs(a[1]) <= (a[2] - 1) \div MinDenomInv

\* |a| >= min_denominator, for a finite a.
AtOrAboveFloor(a) == IsFinite(a) /\ ~BelowFloor(a)

---------------------------------------------------------------------------
(* Matrix predicates used by the properties.                               *)

\* M[i,j] == M[j,i] for all i, j, compared as floats.
Symmetric(M) ==
    /\ M.rows = M.cols
    /\ \A ij \in Idx(M.rows, M.cols) : FloatEq(M.a[ij], M.a[<<ij[2], ij[1]>>])

\* s with its k-th element removed.
Drop(s, k) == [i \in 1 .. Len(s) - 1 |-> IF i < k THEN s[i] ELSE s[i + 1]]

RECURSIVE Det(_, _, _)
RECURSIVE DetRow(_, _, _, _)
\* Determinant of the submatrix of M on rows rs and columns cs (cofactor
\* expansion along the first row).
Det(M, rs, cs) ==
    IF Len(rs) = 0 THEN R(1) ELSE DetRow(M, rs, cs, Len(cs))

DetRow(M, rs, cs, k) ==
    IF k = 0 THEN R(0)
    ELSE LET cof == XMul(M.a[<<rs[1], cs[k]>>], Det(M, Tail(rs), Drop(cs, k)))
         IN  XAdd(DetRow(M, rs, cs, k - 1),
                  IF k % 2 = 1 THEN cof ELSE XNeg(cof))

Upto(k) == [i \in 1 .. k |-> i]

\* Sylvester's criterion: a symmetric matrix is positive-definite iff all
\* its leading principal minors are positive.
PosDef(M) ==
    /\ Symmetric(M)
    /\ \A k \in 1 .. M.rows : XPos(Det(M, Upto(k), Upto(k)))

TestVals == {-1, 0, 1}

\* x . M . x
QuadForm(M, x) == Dot(x, MatVec(M, x))

\* x . M . x > 0 for every nonzero x with entries in TestVals.
PosOnTestVectors(M) ==
    \A x \in [1 .. M.rows -> {R(v) : v \in TestVals}] :
        (\E i \in 1 .. M.rows : x[i] # R(0)) => XPos(QuadForm(M, x))

---------------------------------------------------------------------------
(* The BFGS formula of the notebook's markdown, written from the input H.  *)

RECURSIVE RefSum(_, _)
\* f[1] + ... + f[k]
RefSum(f, k) == IF k = 0 THEN R(0) ELSE XAdd(RefSum(f, k - 1), f[k])

\* dq . dg
RefGq(vq, vg) == RefSum([k \in 1 .. Len(vq) |-> XMul(vq[k], vg[k])], Len(vq))

\* (H dq)[i]
RefHdq(Hm, vq, i) ==
    RefSum([k \in 1 .. Hm.cols |-> XMul(Hm.a[<<i, k>>], vq[k])], Hm.cols)

\* dq . (H dq)
RefDqHdq(Hm, vq) ==
    RefSum([k \in 1 .. Len(vq) |-> XMul(vq[k], RefHdq(Hm, vq, k))], Len(vq))

\* The matrix of H[i,j] + dg[i] dg[j] / (dq . dg)
\*                      - (H dq)[i] (H dq)[j] / (dq . H dq)
RefBFGS(Hm, vq, vg) ==
    LET g  == RefGq(vq, vg)
        hd == [i \in 1 .. Hm.rows |-> RefHdq(Hm, vq, i)]
        d  == RefDqHdq(Hm, vq)
    IN  [ij \in Idx(Hm.rows, Hm.cols) |->
            XSub(XAdd(Hm.a[ij], XDiv(XMul(vg[ij[1]], vg[ij[2]]), g)),
                 XDiv(XMul(hd[ij[1]], hd[ij[2]]), d))]

---------------------------------------------------------------------------
(* Properties of the update cell, checked under Spec.                      *)

\* C1 (stated for Nintco >= 1; Nintco = 0 is the case C5 governs): when
\* |dq.dg| is below min_denominator the update reports UpdateSkipped and the
\* resulting Hessian is exactly H, never one built from a division by gq.
C1_SkipOnSmallGq ==
    (pc = "done" /\ Nintco >= 1 /\ BelowFloor(gq))
        => (Outcome = "UpdateSkipped" /\ H_new = H)

\* C2: when |dq.dg| is at or above the floor but |dq.(H.dq)| is below it,
\* the update reports UpdateSkipped and the Hessian it yields is exactly H,
\* without the first rank-one term applied.
C2_SkipOnSmallDqHdq ==
    (pc = "done" /\ Nintco >= 1 /\ AtOrAboveFloor(gq) /\ BelowFloor(dqHdq))
        => (Outcome = "UpdateSkipped" /\ H_new = H)

\* C3: from a symmetric H, for arbitrary dq and dg, the Hessian after the
\* update satisfies H[i,j] == H[j,i] for all i, j.
C3_SymmetryPreserved ==
    (pc = "done" /\ Symmetric(H)) => Symmetric(H_new)

\* C5: with no internal coordinates the cell runs to completion, neither
\* skipping nor raising, and yields the empty matrix, although gq and dqHdq
\* are then both 0 and so below min_denominator.
C5_ZeroCoordinates ==
    Nintco = 0 =>
        /\ pc # "raised"
        /\ pc = "done" =>
              /\ Outcome = "Updated"
              /\ H_new = Zeros2(0, 0)
              /\ BelowFloor(gq)
              /\ BelowFloor(dqHdq)

C5_Witness == Nintco = 0 /\ pc = "done" /\ gq = R(0) /\ dqHdq = R(0)

\* The standard step conditions of C6.
C6_Conditions ==
    /\ pc = "done"
    /\ PosDef(H)
    /\ XPos(gq)
    /\ AtOrAboveFloor(gq)
    /\ AtOrAboveFloor(dqHdq)

\* C6: for a symmetric positive-definite H and dq.dg > 0 with both
\* denominators at or above the floor, the updated Hessian is
\* positive-definite.
C6_PositiveDefinite ==
    C6_Conditions => (PosDef(H_new) /\ PosOnTestVectors(H_new))

C6_Witness ==
    /\ C6_Conditions
    /\ Nintco = MaxN
    /\ H_new # H
    /\ \E ij \in Idx(Nintco, Nintco) : ij[1] # ij[2] /\ H_new.a[ij] # R(0)

\* C7: on the applied path every entry of the result is
\* H[i,j] + dg[i]*dg[j]/gq - Hdq[i]*Hdq[j]/dqHdq with gq, Hdq and dqHdq
\* computed from the input H.
C7_Formula ==
    (pc = "done" /\ AtOrAboveFloor(gq) /\ AtOrAboveFloor(dqHdq)) =>
        /\ gq = RefGq(dq, dg)
        /\ \A i \in 1 .. Nintco : Hdq[i] = RefHdq(H, dq, i)
        /\ dqHdq = RefDqHdq(H, dq)
        /\ H_new.rows = Nintco /\ H_new.cols = Nintco
        /\ H_new.a = RefBFGS(H, dq, dg)

C7_Witness ==
    /\ pc = "done"
    /\ Nintco = MaxN
    /\ AtOrAboveFloor(gq)
    /\ AtOrAboveFloor(dqHdq)
    /\ ~Symmetric(H)
    /\ \A ij \in Idx(Nintco, Nintco) : H_new.a[ij] # H.a[ij]

\* C8: with gradients g = -f at each point, dg is the current gradient
\* minus the previous one and dq the current coordinates minus the
\* previous ones, component by component.
C8_SignConvention ==
    pc \in {"gq", "loop1", "products", "loop2", "done"} =>
        /\ Len(dg) = Nintco /\ Len(dq) = Nintco
        /\ \A i \in 1 .. Nintco :
              /\ dg[i] = XSub(XNeg(f_q2[i]), XNeg(f_q1[i]))
              /\ dq[i] = XSub(q_2[i], q_1[i])

C8_Witness ==
    /\ pc = "gq"
    /\ Nintco = MaxN
    /\ \A i \in 1 .. Nintco : dg[i] # R(0) /\ dq[i] # R(0)
    /\ \E i \in 1 .. Nintco : XPos(dg[i])
    /\ \E i \in 1 .. Nintco : XPos(XNeg(dg[i]))

\* C9: whenever both denominators are nonzero the new Hessian satisfies the
\* secant condition H_new . dq = dg, for symmetric and non-symmetric H.
C9_Secant ==
    (pc = "done" /\ IsFinite(gq) /\ gq # R(0)
                 /\ IsFinite(dqHdq) /\ dqHdq # R(0)) =>
        \A i \in 1 .. Nintco : RefHdq(H_new, dq, i) = dg[i]

C9_Witness ==
    /\ pc = "done"
    /\ Nintco = MaxN
    /\ IsFinite(gq) /\ gq # R(0)
    /\ IsFinite(dqHdq) /\ dqHdq # R(0)
    /\ ~Symmetric(H)
    /\ H_new # H
    /\ \A i \in 1 .. Nintco : RefHdq(H_new, dq, i) = dg[i]

---------------------------------------------------------------------------
(* Property of the update cell on mismatched shapes, checked under         *)
(* SpecDim.                                                                *)

\* H is not Nintco x Nintco, or the dq array or the force arrays dg is
\* taken from do not have length Nintco.
DimsMismatch ==
    \/ H.rows # Nintco \/ H.cols # Nintco
    \/ Len(dq) # Nintco
    \/ Len(f_q1) # Nintco

\* C4: on mismatched shapes the update fails before gq, Hdq, dqHdq or any
\* entry of the new Hessian is computed, and never completes.
C4_InvalidDimensions ==
    DimsMismatch =>
        /\ gq = Unset
        /\ dqHdq = Unset
        /\ pc \notin {"products", "loop2", "done"}
        /\ H_new \in {UnsetMat, Zeros2(Nintco, Nintco)}

---------------------------------------------------------------------------
(* Property of the notebook's sequence of cells, checked under             *)
(* SpecNotebook.                                                           *)

UpdatePhases == {"gq", "loop1", "products", "loop2", "done"}

\* What one step of the notebook must respect for C10.
C10_Step ==
    \* displace leaves in x_1 the geometry xyz held before it
    /\ (pc = "nr_step" /\ pc' = "second_point") =>
          /\ mem'[x_1'] = mem[xyz]
          /\ q_1' = QValues(mem[xyz])
          /\ f_q1' = QForces(mem[xyz], Gradient(mem[xyz]))
    \* the second sample is taken at the geometry displace left in xyz
    /\ (pc = "second_point" /\ pc' = "setup") =>
          /\ x_2' = xyz /\ mem' = mem
          /\ q_2' = QValues(mem[xyz])
          /\ f_q2' = QForces(mem[xyz], Gradient(mem[xyz]))
    \* once taken, the samples and the arrays they came from stay as they are
    /\ pc \notin {"first_point", "nr_step"} =>
          /\ mem' = mem /\ x_1' = x_1 /\ q_1' = q_1 /\ f_q1' = f_q1
    /\ pc \in {"setup"} \cup UpdatePhases =>
          /\ x_2' = x_2 /\ q_2' = q_2 /\ f_q2' = f_q2
    \* the update reads dq only after overwriting it with q_2 - q_1
    /\ pc' \in UpdatePhases =>
          /\ dq' = Sub1(q_2', q_1')
          /\ q_1' = QValues(mem'[x_1'])
          /\ q_2' = QValues(mem'[x_2'])
    \* the update writes H_new and leaves the input H alone
    /\ pc \in {"setup"} \cup UpdatePhases => H' = H

\* C10: the in-place displacement of xyz does not change the first-point
\* samples, q_1 and f_q1 are the values at the geometry before displace (of
\* which x_1 is a copy), q_2 and f_q2 the values at the geometry after it,
\* dq is overwritten with q_2 - q_1 before the update reads it, and the
\* update leaves H unmodified.
C10_SamplesAndFrames == [][C10_Step]_vars

\* The update has run to its end on two distinct geometries, after a
\* displace whose achieved step differs from the Newton-Raphson step that
\* dq held.
C10_Witness ==
    /\ pc = "done"
    /\ x_1 # x_2
    /\ mem[x_1] # mem[x_2]
    /\ dq # MatVec(SymmMatInv(H), f_q1)
    /\ dq = Sub1(q_2, q_1)
    /\ H_new # H

===========================================================================
